---- MODULE Spec2Model ----
(***************************************************************************)
(* OVSDBClient (node-ovsdb): the JSON-RPC transport/correlation engine.    *)
(* One client instance, its sockets, its request() calls and the events    *)
(* Node delivers to the handlers the client registers.  Every handler runs *)
(* to completion (single-threaded event loop), so each is one action.      *)
(***************************************************************************)
EXTENDS Integers, Sequences, FiniteSets, TLC

\* ------------------------------------------------------------------ bounds
MaxCalls == 2        \* request() invocations in one behaviour
MaxSockets == 2      \* createConnection() invocations in one behaviour

\* ------------------------------------------------------------------ inputs
\* The caller's calls take the RPC methods in turn, so that two calls that are
\* outstanding together differ in their method.
MethodNames == <<"echo", "transact", "list_dbs">>
MethodOfCall(c) == MethodNames[((c - 1) % Len(MethodNames)) + 1]
NotifyMethods == {"update", "locked", "stolen", "other"}

\* ids an inbound message may carry: 0 stands for JSON null; hasId = FALSE for a
\* message with no id member.  One id more than any call can have been given.
MsgIds == 0..(MaxCalls + 1)

\* A parsed JSON object, by the members the handlers read.
\* method = "none": no method member.  error = "null": error absent or null.
\* result = "none": no result member; "array": an array such as ["ping"];
\* "errorObject": an object with an error member (an OVSDB domain error).
\* Responses carry an error or a result only with an id that could be a call's;
\* a message without params is tried with id null; a message without id is tried
\* with no method and with two of the methods.
Messages ==
    { m \in [hasId : BOOLEAN, id : MsgIds, method : NotifyMethods \cup {"none"},
             params : BOOLEAN, error : {"null", "err"},
             result : {"none", "array", "errorObject"}] :
        /\ (~m.hasId => m.id = 0 /\ m.method \in {"none", "update", "other"})
        /\ (m.method = "none" => ~m.params)
        /\ (m.method # "none" => m.error = "null")
        /\ (m.error # "null" => m.hasId /\ m.id # 0)
        /\ (m.result # "none" => m.hasId /\ m.id # 0 /\ m.method = "none" /\ m.error = "null")
        /\ (m.method # "none" /\ ~m.params => m.hasId /\ m.id = 0) }

NoMsg == [hasId |-> FALSE, id |-> 0, method |-> "none", params |-> FALSE, error |-> "null",
          result |-> "none"]

\* One newline-separated piece of a chunk:
\*   msg    the text of a JSON object      scalar  JSON that is no object
\*   junk   text JSON.parse rejects        part    a piece of a frame
\*   empty  the empty string
\*   head   the text of m up to some place inside it    tail   the rest of it
Seg(kind, m) == [kind |-> kind, m |-> m]
MsgSegs == { Seg("msg", m) : m \in Messages }
OtherSegs == { Seg(k, NoMsg) : k \in {"scalar", "junk", "part", "empty"} }

\* The frames that arrive in two reads: the response to the first call
SplitMessages == { m \in Messages : m.hasId /\ m.id = 1 /\ m.method = "none" /\ m.error = "null"
                                     /\ m.result = "array" }
HalfSegs == { Seg(k, m) : k \in {"head", "tail"}, m \in SplitMessages }

\* The chunks the data events deliver: every segment alone,
\* and one read that brings three: the answer to the first call, a notification
\* and a piece of text that is no JSON.
Response(id, error, result) ==
    [hasId |-> TRUE, id |-> id, method |-> "none", params |-> FALSE, error |-> error,
     result |-> result]
Notification(method) ==
    [hasId |-> TRUE, id |-> 0, method |-> method, params |-> TRUE, error |-> "null",
     result |-> "none"]
ThreeSegments ==
    <<Seg("msg", Response(1, "null", "array")), Seg("msg", Notification("locked")),
      Seg("junk", NoMsg)>>
Chunks == { <<s>> : s \in MsgSegs \cup OtherSegs \cup HalfSegs } \cup {ThreeSegments}

\* ------------------------------------------------------------------- state
\* A handler is an operator from the client's state to its state.  Some fields
\* of that record are no variables: result, what an API call returned at once;
\* exc, an exception on its way to the catch of _handleData; effects, what the
\* handler did to the outside (the callbacks it invoked with their argument, the
\* messages it dispatched or dropped), in the order it did so; n and pos, the
\* number of segments of the chunk in hand and the index of the one in hand;
\* steps, the statements of the handler that the order of matters, each with
\* what the client looked like when the statement was reached.
VARIABLES
    isConnected,       \* this.isConnected
    socket,            \* this.socket: 0 is null, else an index of sockets
    requestId,         \* this.requestId
    pendingRequests,   \* this.pendingRequests: id -> the call whose resolve/reject/timeoutId it holds
    calls,             \* every request() made: its promise, timer and write
    sockets,           \* every socket created by connect(): its state and the closures of that connect()
    console,           \* what the last handler wrote with console.log / console.error
    disposed           \* a close() has completed and connect() was not invoked since

vars == <<isConnected, socket, requestId, pendingRequests, calls, sockets, console, disposed>>

EmptyMap == [k \in {} |-> 0]

St == [isConnected |-> isConnected, socket |-> socket, requestId |-> requestId,
       pendingRequests |-> pendingRequests, calls |-> calls, sockets |-> sockets,
       console |-> <<>>, result |-> "none", disposed |-> disposed, exc |-> "none",
       effects |-> <<>>, n |-> 0, pos |-> 0, steps |-> <<>>]

Apply(st) ==
    /\ isConnected' = st.isConnected
    /\ socket' = st.socket
    /\ requestId' = st.requestId
    /\ pendingRequests' = st.pendingRequests
    /\ calls' = st.calls
    /\ sockets' = st.sockets
    /\ console' = st.console
    /\ disposed' = st.disposed

Init ==
    /\ isConnected = FALSE
    /\ socket = 0
    /\ requestId = 1
    /\ pendingRequests = EmptyMap
    /\ calls = <<>>
    /\ sockets = <<>>
    /\ console = <<>>
    /\ disposed = FALSE


\* ---------------------------------------------------------------- promises
\* The deferred result of request(): `new Promise((resolve, reject) => ...)`.
\* resolve and reject act on a promise that is still pending and are ignored
\* on one that is settled.  completions counts the completions the caller sees.
SettleRaw(call, kind, reason, detail, by) ==
    [call EXCEPT !.promise = kind, !.reason = reason, !.detail = detail, !.by = by,
                 !.completions = @ + 1]

Settle(call, kind, reason, detail, by) ==
    IF call.promise = "pending"
    THEN [call EXCEPT !.promise = kind, !.reason = reason, !.detail = detail, !.by = by,
                      !.completions = @ + 1]
    ELSE call

TimerStaysArmed(call) == call

\* clearTimeout(timeoutId) of a request timer
ClearTimeout(call) ==
    IF call.timer = "armed" THEN [call EXCEPT !.timer = "cleared"] ELSE call

\* The promise of one connect(): resolve(this) / reject(err)
SettleConnect(sock, outcome) ==
    IF sock.promise = "pending" THEN [sock EXCEPT !.promise = outcome] ELSE sock

ClearConnectTimeout(sock) ==
    IF sock.timer = "armed" THEN [sock EXCEPT !.timer = "cleared"] ELSE sock

\* socket.destroy(): the socket stops emitting connect/data/error; its close
\* event is emitted later.  No effect on a socket already destroyed.
Destroy(socks, s) ==
    IF socks[s].state \in {"connecting", "open"}
    THEN [socks EXCEPT ![s].state = "destroyed"]
    ELSE socks

\* ------------------------------------------------------- the pending table
SetPendingNextId(pr, id, c) ==
    [k \in DOMAIN pr \cup {id + 1} |-> IF k = id + 1 THEN c ELSE pr[k]]

\* this.pendingRequests.set(id, {resolve, reject, timeoutId})
SetPending(pr, id, c) ==
    [k \in DOMAIN pr \cup {id} |-> IF k = id THEN c ELSE pr[k]]

\* this.pendingRequests.delete(id)
Delete(pr, id) == [k \in DOMAIN pr \ {id} |-> pr[k]]

LookupAny(pr, id) ==
    IF id \in DOMAIN pr THEN pr[id]
    ELSE IF DOMAIN pr # {} THEN pr[CHOOSE k \in DOMAIN pr : \A j \in DOMAIN pr : k <= j]
    ELSE 0

\* this.pendingRequests.get(id): 0 stands for undefined
Lookup(pr, id) == IF id \in DOMAIN pr THEN pr[id] ELSE 0

InTable(pr, c) == \E k \in DOMAIN pr : pr[k] = c

\* --------------------------------------------------- the order of statements
\* The client as statement `step` finds it.  For the completion of call c
\* (step = "complete": its resolve or reject is invoked next): whether its entry
\* is in the table and its timer armed.
Snapshot(st, step, c) ==
    [step |-> step, call |-> c, isConnected |-> st.isConnected, socket |-> st.socket,
     outstanding |-> Cardinality({ d \in DOMAIN st.calls : st.calls[d].promise = "pending" }),
     inTable |-> c # 0 /\ InTable(st.pendingRequests, c),
     armed |-> c # 0 /\ st.calls[c].timer = "armed"]
Reached(st, step, c) == [st EXCEPT !.steps = Append(@, Snapshot(st, step, c))]

\* One statement after another: Statement runs on the client as the statements
\* before it left it.
Then(st, Statement(_)) == CHOOSE r \in { Statement(a) : a \in {st} } : TRUE

\* The keys of a Map in the order of insertion, which is that of the ids
RECURSIVE Keys(_)
Keys(pr) ==
    IF DOMAIN pr = {} THEN <<>>
    ELSE LET k == CHOOSE j \in DOMAIN pr : \A i \in DOMAIN pr : j <= i
         IN <<k>> \o Keys([i \in DOMAIN pr \ {k} |-> pr[i]])

\* ---------------------------------------------------------------- _cleanup
RejectNone(cs, pr) ==
    [c \in DOMAIN cs |-> IF InTable(pr, c) THEN ClearTimeout(cs[c]) ELSE cs[c]]

\* this.pendingRequests.forEach(({reject, timeoutId}) => {clearTimeout; reject})
RejectAll(cs, pr) ==
    [c \in DOMAIN cs |->
        IF InTable(pr, c)
        THEN Settle(ClearTimeout(cs[c]), "rejected", "ConnectionClosed", "", 0)
        ELSE cs[c]]

\* the body of the forEach of _cleanup, entry after entry
RECURSIVE RejectEach(_, _)
RejectEach(st, ks) ==
    IF ks = <<>> THEN st
    ELSE LET c == st.pendingRequests[Head(ks)]
             st1 == [st EXCEPT !.calls[c] = ClearTimeout(@)]
             st2 == [Reached(st1, "complete", c) EXCEPT
                        !.calls[c] = Settle(@, "rejected", "ConnectionClosed", "", 0)]
         IN RejectEach(st2, Tail(ks))

\* this.isConnected = false
StopAccepting(st) == [Reached(st, "stop", 0) EXCEPT !.isConnected = FALSE]

\* if (this.socket) { this.socket.destroy(); this.socket = null }
TearDown(st) ==
    IF st.socket # 0
    THEN [Reached(st, "teardown", 0) EXCEPT !.sockets = Destroy(@, st.socket), !.socket = 0]
    ELSE st

\* this.pendingRequests.forEach(...)
RejectPending(st) ==
    [st EXCEPT !.calls = RejectAll(st.calls, st.pendingRequests),
               !.steps = RejectEach(st, Keys(st.pendingRequests)).steps]

\* this.pendingRequests.clear()
ClearTable(st) == [Reached(st, "clear", 0) EXCEPT !.pendingRequests = EmptyMap]

CleanupRejectsFirst(st) ==
    Then(Then(Then(Then(st, StopAccepting), RejectPending), TearDown), ClearTable)

CleanupStaysConnected(st) ==
    [st EXCEPT !.sockets = IF st.socket # 0 THEN Destroy(st.sockets, st.socket) ELSE st.sockets,
               !.socket = 0,
               !.calls = RejectAll(st.calls, st.pendingRequests),
               !.pendingRequests = EmptyMap]

CleanupKeepsSocket(st) ==
    [st EXCEPT !.isConnected = FALSE,
               !.socket = 0,
               !.calls = RejectAll(st.calls, st.pendingRequests),
               !.pendingRequests = EmptyMap]

CleanupKeepTable(st) ==
    [st EXCEPT !.isConnected = FALSE,
               !.sockets = IF st.socket # 0 THEN Destroy(st.sockets, st.socket) ELSE st.sockets,
               !.socket = 0,
               !.calls = RejectAll(st.calls, st.pendingRequests)]

\* _cleanup, statement after statement: isConnected = false; destroy the socket
\* and drop it; clearTimeout and reject for every entry; clear the table
Cleanup(st) ==
    Then(Then(Then(Then(st, StopAccepting), TearDown), RejectPending), ClearTable)

\* ----------------------------------------------------------------- connect
\* waiter: a close() awaits the close event of this socket
NewSocket == [state |-> "connecting", timer |-> "armed", promise |-> "pending", waiter |-> FALSE]

\* connect() is invoked
MarkConnect(st) == [st EXCEPT !.disposed = FALSE]

ConnectOpUnguarded(st, exists) ==
    LET st1 == MarkConnect(st) IN
    IF ~exists THEN [st1 EXCEPT !.result = "connect:notfound"]
    ELSE [st1 EXCEPT !.sockets = Append(@, NewSocket),
                     !.socket = Len(st1.sockets) + 1,
                     !.result = "connect:pending"]

\* connect(): exists is existsSync(this.socketPath)
ConnectOp(st, exists) ==
    LET st1 == MarkConnect(st) IN
    IF st1.isConnected THEN [st1 EXCEPT !.result = "connect:resolved"]
    ELSE IF ~exists THEN [st1 EXCEPT !.result = "connect:notfound"]
    ELSE [st1 EXCEPT !.sockets = Append(@, NewSocket),
                     !.socket = Len(st1.sockets) + 1,
                     !.result = "connect:pending"]

\* this.socket.on('connect', ...)
OnConnect(st, s) ==
    [st EXCEPT !.sockets[s] = SettleConnect(ClearConnectTimeout(@), "resolved"),
               !.isConnected = TRUE]

\* the connect timer of the connect() that created socket s
OnConnectTimeout(st, s) ==
    LET st1 == Cleanup([st EXCEPT !.sockets[s].timer = "fired"]) IN
    [st1 EXCEPT !.sockets[s] = SettleConnect(@, "ConnectTimeout")]

\* this.socket.on('error', ...)
OnError(st, s) ==
    LET st1 == Cleanup([st EXCEPT !.sockets[s] = ClearConnectTimeout(@)]) IN
    [st1 EXCEPT !.sockets[s] = SettleConnect(@, "TransportError")]

\* this.socket.on('close', ...), then the once('close') listener of a close()
OnClose(st, s) ==
    LET st1 == Cleanup(st) IN
    [st1 EXCEPT !.sockets[s].waiter = FALSE,
                !.disposed = IF st1.sockets[s].waiter THEN TRUE ELSE @,
                !.result = IF st1.sockets[s].waiter THEN "close:resolved" ELSE @]


\* ----------------------------------------------------------------- request
NewCall(method) ==
    [method |-> method, id |-> 0, sock |-> 0, promise |-> "pending", reason |-> "none",
     detail |-> "", by |-> 0, completions |-> 0, timer |-> "none", write |-> "none"]

SameRequestId(id) == id

\* const id = this.requestId++
NextRequestId(id) == id + 1

NeverRejects(st) == FALSE

\* if (!this.isConnected) { reject(new Error('Not connected to OVSDB')); return; }
IsNotConnected(st) == ~st.isConnected

\* request(method, params).  With this.socket null, this.socket!.write throws
\* inside the promise executor, which rejects the promise with the TypeError.
Request(st, method) ==
    LET c == Len(st.calls) + 1
        id == st.requestId
    IN
    IF IsNotConnected(st)
    THEN [st EXCEPT !.calls = Append(@, Settle(NewCall(method), "rejected", "NotConnected", "", 0)),
                    !.result = "request:rejected"]
    ELSE LET call == [NewCall(method) EXCEPT !.id = id, !.sock = st.socket, !.timer = "armed",
                                             !.write = IF st.socket = 0 THEN "none" ELSE "inflight"]
             done == IF st.socket = 0 THEN Settle(call, "rejected", "TypeError", "", 0) ELSE call
         IN [st EXCEPT !.requestId = NextRequestId(id),
                       !.pendingRequests = SetPending(@, id, c),
                       !.calls = Append(@, done),
                       !.result = IF st.socket = 0 THEN "request:threw" ELSE "request:pending"]

TimeoutKeepsEntry(st, c) ==
    [st EXCEPT !.calls[c] = Settle([@ EXCEPT !.timer = "fired"], "rejected", "RequestTimeout",
                                   st.calls[c].method, 0)]

\* setTimeout(() => { this.pendingRequests.delete(id); reject(...) }, this.timeout)
OnRequestTimeout(st, c) ==
    LET st1 == [st EXCEPT !.calls[c].timer = "fired",
                          !.pendingRequests = Delete(@, st.calls[c].id)]
    IN [Reached(st1, "complete", c) EXCEPT
           !.calls[c] = Settle(@, "rejected", "RequestTimeout", st.calls[c].method, 0)]

WriteCallbackRejectsOnly(st, c) ==
    [st EXCEPT !.calls[c] = Settle([@ EXCEPT !.write = "failed"],
                                   "rejected", "TransportError", "", 0)]

\* the callback given to this.socket.write, called with an error (called with
\* none it does nothing)
WriteCallback(st, c) ==
    LET st1 == [st EXCEPT !.calls[c] = ClearTimeout([@ EXCEPT !.write = "failed"]),
                          !.pendingRequests = Delete(@, st.calls[c].id)]
    IN [Reached(st1, "complete", c) EXCEPT
           !.calls[c] = Settle(@, "rejected", "TransportError", "", 0)]

\* ------------------------------------------------------------------- close
DisposeUnguarded(st) ==
    LET s == st.socket
        atOnce == s = 0 \/ st.sockets[s].state \in {"destroyed", "closed"}
        st1 == IF atOnce THEN st ELSE [st EXCEPT !.sockets[s].waiter = TRUE]
        st2 == Cleanup(st1)
    IN [st2 EXCEPT !.disposed = IF atOnce THEN TRUE ELSE @,
                   !.result = IF atOnce THEN "close:resolved" ELSE "close:pending"]

\* [Symbol.asyncDispose](): the closePromise is made before _cleanup runs.
\* It resolves at once with no socket or a destroyed one, and else on the
\* close event of the socket (the waiter of that socket).
Dispose(st) ==
    IF st.isConnected
    THEN LET s == st.socket
             atOnce == s = 0 \/ st.sockets[s].state \in {"destroyed", "closed"}
             st1 == IF atOnce THEN st ELSE [st EXCEPT !.sockets[s].waiter = TRUE]
             st2 == Cleanup(st1)
         IN [st2 EXCEPT !.disposed = IF atOnce THEN TRUE ELSE @,
                        !.result = IF atOnce THEN "close:resolved" ELSE "close:pending"]
    ELSE [st EXCEPT !.disposed = TRUE, !.result = "close:resolved"]

\* -------------------------------------------------------- inbound messages
\* A console line: its text and, where the message itself is printed, its id
Entry(out, m) == [out |-> out, id |-> m.id]
Log(st, out, m) == [st EXCEPT !.console = Append(@, Entry(out, m))]

\* One thing a handler did while segment pos was in hand:
\*   resolve, reject   it invoked that callback of call `call`
\*   notified          it wrote a notification to the console
\*   dropped           it logged a failure and did nothing else
\* and what it handed over: the part `part` of the message `value` (whole: the
\* parsed object itself; result, error, params, method: that member of it).
Effect(st, kind, call, part, value) ==
    [st EXCEPT !.effects = Append(@, [pos |-> st.pos, kind |-> kind, call |-> call,
                                      part |-> part, value |-> value])]

\* _handleNotification: reading params[0] of a message without params throws
HandleNotification(st, m) ==
    IF m.method = "none"
    THEN Effect(Log(st, "Invalid notification format:", m), "dropped", 0, "whole", m)
    ELSE IF m.method \in {"update", "locked", "stolen"}
    THEN IF m.params
         THEN Effect(Log(st, "Received " \o m.method \o " notification:", NoMsg),
                     "notified", 0, "params", m)
         ELSE [st EXCEPT !.exc = "TypeError"]
    ELSE Effect(Log(st, "Received notification:", NoMsg), "notified", 0, "method", m)

HasErrorNever(m) == FALSE

\* if (response.error !== null && response.error !== undefined)
HasError(m) == m.error # "null"

ResolvedWithResult(m) == "result"

\* request.resolve(response): the response object itself
ResolvedWith(m) == "whole"

\* _handleResponse
HandleResponse(st, m) ==
    IF ~m.hasId THEN Effect(Log(st, "Invalid response format:", m), "dropped", 0, "whole", m)
    ELSE LET c == Lookup(st.pendingRequests, m.id) IN
         IF c = 0 THEN HandleNotification(st, m)
         ELSE LET st0 == [st EXCEPT !.pendingRequests = Delete(@, m.id),
                                    !.calls[c] = ClearTimeout(@)]
                  st1 == Reached(st0, "complete", c)
              IN IF HasError(m)
                 THEN Effect([st1 EXCEPT !.calls[c] = Settle(@, "rejected", "RpcError", m.error, m.id)],
                             "reject", c, "error", m)
                 ELSE Effect([st1 EXCEPT !.calls[c] = Settle(@, "resolved", "Response", "", m.id)],
                             "resolve", c, ResolvedWith(m), m)

\* data.toString().trim(): empty segments at both ends of the chunk go
RECURSIVE TrimLeft(_)
TrimLeft(segs) ==
    IF segs # <<>> /\ Head(segs).kind = "empty" THEN TrimLeft(Tail(segs)) ELSE segs

RECURSIVE TrimRight(_)
TrimRight(segs) ==
    IF segs # <<>> /\ segs[Len(segs)].kind = "empty"
    THEN TrimRight(SubSeq(segs, 1, Len(segs) - 1)) ELSE segs

\* ''.split('\n') is [''], one empty segment
Split(chunk) ==
    LET t == TrimRight(TrimLeft(chunk)) IN IF t = <<>> THEN <<[kind |-> "empty", m |-> NoMsg]>> ELSE t

\* the body of messages.forEach: try { JSON.parse; _handleResponse } catch { console.error }
HandleSegment(st, seg) ==
    IF seg.kind = "empty" THEN st
    ELSE IF seg.kind \in {"junk", "part", "head", "tail"}
    THEN Effect(Log(st, "Failed to parse JSON: SyntaxError", NoMsg), "dropped", 0, "whole", NoMsg)
    ELSE IF seg.kind = "scalar"
    THEN Effect(Log(st, "Invalid response format:", NoMsg), "dropped", 0, "whole", NoMsg)
    ELSE LET st1 == HandleResponse(st, seg.m) IN
         IF st1.exc # "none"
         THEN Effect(Log([st1 EXCEPT !.exc = "none"], "Failed to parse JSON: " \o st1.exc, NoMsg),
                     "dropped", 0, "whole", seg.m)
         ELSE st1

RECURSIVE HandleSegmentsBackwards(_, _)
HandleSegmentsBackwards(st, segs) ==
    IF segs = <<>> THEN st
    ELSE HandleSegment([HandleSegmentsBackwards(st, Tail(segs)) EXCEPT !.pos = st.n - Len(segs) + 1],
                       Head(segs))

\* messages.forEach: the segments in their order; segs is what is left of the n
RECURSIVE HandleSegments(_, _)
HandleSegments(st, segs) ==
    IF segs = <<>> THEN st
    ELSE HandleSegments(HandleSegment([st EXCEPT !.pos = st.n - Len(segs) + 1], Head(segs)),
                        Tail(segs))

\* _handleData
HandleData(st, chunk) ==
    LET segs == Split(chunk) IN HandleSegments([st EXCEPT !.n = Len(segs)], segs)

\* ---------------------------------------------------------- typed methods
\* listDbs(), transact(), echo() after `await this.request(...)` has given them
\* the part `part` of the message m: what the promise of the method settles to.
\* Reading .error or .result of a value that is no response object gives
\* undefined, and `'error' in undefined` throws a TypeError.
Unwrap(method, part, m) ==
    LET isResponse == part = "whole"
        result == IF isResponse THEN m.result ELSE "none"
    IN
    IF isResponse /\ HasError(m) THEN [promise |-> "rejected", part |-> "RPC Error", value |-> m]
    ELSE IF method = "transact" THEN [promise |-> "resolved", part |-> "result", value |-> m]
    ELSE IF result = "none" THEN [promise |-> "rejected", part |-> "TypeError", value |-> m]
    ELSE IF result = "errorObject" THEN [promise |-> "rejected", part |-> "OVSDB Error", value |-> m]
    ELSE [promise |-> "resolved", part |-> "result", value |-> m]

\* ----------------------------------------------------------------- actions
Connect ==
    \E exists \in BOOLEAN :
        /\ (~isConnected /\ exists) => Len(sockets) < MaxSockets
        /\ Apply(ConnectOp(St, exists))

SendRequest ==
    \E method \in {MethodOfCall(Len(calls) + 1)} :
        /\ Len(calls) < MaxCalls
        /\ Apply(Request(St, method))

Close ==
    \E st \in {Dispose(St)} : Apply(st)

\* the transport is established
SocketConnect ==
    \E s \in DOMAIN sockets :
        /\ sockets[s].state = "connecting"
        /\ Apply(OnConnect([St EXCEPT !.sockets[s].state = "open"], s))

\* the transport fails: Node destroys the socket and emits error, close follows
SocketError ==
    \E s \in DOMAIN sockets :
        /\ sockets[s].state \in {"connecting", "open"}
        /\ Apply(OnError([St EXCEPT !.sockets[s].state = "destroyed"], s))

\* the peer ends the connection: the socket is destroyed without an error
SocketEnd ==
    \E s \in DOMAIN sockets :
        /\ sockets[s].state = "open"
        /\ Apply([St EXCEPT !.sockets[s].state = "destroyed"])

\* the close event of a destroyed socket
SocketClose ==
    \E s \in DOMAIN sockets :
        /\ sockets[s].state = "destroyed"
        /\ Apply(OnClose([St EXCEPT !.sockets[s].state = "closed"], s))

\* data arrives on an open socket (the handler does not look at which)
SocketData ==
    \E chunk \in Chunks :
        /\ \E s \in DOMAIN sockets : sockets[s].state = "open"
        /\ Apply(HandleData(St, chunk))

ConnectTimeout ==
    \E s \in DOMAIN sockets :
        /\ sockets[s].timer = "armed"
        /\ Apply(OnConnectTimeout(St, s))

RequestTimeout(c) ==
    /\ c \in DOMAIN calls
    /\ calls[c].timer = "armed"
    /\ Apply(OnRequestTimeout(St, c))

\* The write of call c fails: the callback runs, and a socket that was live is
\* destroyed and emits error.
WriteFails(st, c) ==
    LET s == st.calls[c].sock IN
    IF st.sockets[s].state = "open"
    THEN OnError([WriteCallback(st, c) EXCEPT !.sockets[s].state = "destroyed"], s)
    ELSE WriteCallback(st, c)

\* The write of a call fails (no response to the call has come: the server
\* answers what it received).  A write to a connecting socket waits.  On a live
\* socket Node calls the callback, destroys the socket and emits error; on a
\* destroyed socket it only calls the callback.
WriteError ==
    \E c \in DOMAIN calls :
        /\ calls[c].write = "inflight"
        /\ calls[c].by = 0
        /\ sockets[calls[c].sock].state # "connecting"
        /\ Apply(WriteFails(St, c))

Next ==
    \/ Connect
    \/ SendRequest
    \/ Close
    \/ SocketConnect
    \/ SocketError
    \/ SocketEnd
    \/ SocketClose
    \/ SocketData
    \/ ConnectTimeout
    \/ \E c \in 1..MaxCalls : RequestTimeout(c)
    \/ WriteError

Spec == Init /\ [][Next]_vars

\* armed request timers fire
LiveSpec == Spec /\ \A c \in 1..MaxCalls : WF_vars(RequestTimeout(c))

\* the close event of a destroyed socket that a close() waits for
AwaitedSocketClose ==
    \E s \in DOMAIN sockets :
        /\ sockets[s].waiter
        /\ sockets[s].state = "destroyed"
        /\ \E r \in {OnClose([St EXCEPT !.sockets[s].state = "closed"], s)} : Apply(r)

\* a destroyed socket emits its close event
CloseLiveSpec == Spec /\ WF_vars(AwaitedSocketClose)

TypeOK ==
    /\ isConnected \in BOOLEAN
    /\ socket \in 0..Len(sockets)
    /\ requestId \in 1..(MaxCalls + 1)
    /\ Len(calls) <= MaxCalls
    /\ Len(sockets) <= MaxSockets

\* ------------------------------------------------------------------ claims
Issued(c) == c \in DOMAIN calls
Outstanding(c) == c \in DOMAIN calls /\ calls[c].promise = "pending"
Completed(c) == c \in DOMAIN calls /\ calls[c].promise # "pending"
SomeSocketOpen == \E s \in DOMAIN sockets : sockets[s].state = "open"
OneMsg(m) == <<Seg("msg", m)>>

\* C1: the deferred result of every call is completed at most once, whatever the
\* interleaving of responses, timeouts, write failures, transport events and
\* close(): a call is pending with no completion and settled with exactly one.
C1_CompletedOnce ==
    \A c \in DOMAIN calls :
        /\ calls[c].completions <= 1
        /\ (calls[c].promise = "pending") <=> (calls[c].completions = 0)

\* The reply to the second call came first, then close() rejected the first call
\* and the failure of its write rejected it again.
C1_Witness ==
    /\ Len(calls) = 2
    /\ calls[2].reason = "Response"
    /\ calls[1].reason = "ConnectionClosed"
    /\ calls[1].write = "failed"

\* C2: an inbound message changes a call only if it carries the id that was
\* written in that call's request frame, and every call completed by a message
\* was completed by one with its own id.
C2_Correlation ==
    /\ \A c \in DOMAIN calls : calls[c].by # 0 => calls[c].by = calls[c].id
    /\ \A m \in Messages : \A c \in DOMAIN calls :
          HandleData(St, OneMsg(m)).calls[c] # calls[c] => (m.hasId /\ m.id = calls[c].id)

\* Two calls were outstanding and the reply to the second came first.
C2_Witness ==
    /\ Len(calls) = 2
    /\ calls[2].by = 2
    /\ calls[1].promise = "pending"
    /\ 1 \in DOMAIN pendingRequests

\* C3: every call issued is eventually resolved or rejected, given that armed
\* request timers fire.
C3_EventuallyCompleted == \A c \in 1..MaxCalls : Issued(c) ~> Completed(c)

\* One call ran into its timeout with no answer, the other was rejected by closure.
C3_Witness ==
    /\ Len(calls) = 2
    /\ calls[1].reason = "RequestTimeout"
    /\ calls[2].reason = "ConnectionClosed"

\* C4: close() on a connected client rejects every outstanding call with the
\* connection-closed error, leaves no timer armed and empties the pending table;
\* a call completed before keeps its result.
C4_CloseRejectsAll ==
    isConnected =>
        LET r == Dispose(St) IN
        /\ r.pendingRequests = EmptyMap
        /\ \A c \in DOMAIN calls :
              /\ r.calls[c].timer # "armed"
              /\ IF calls[c].promise = "pending"
                 THEN /\ r.calls[c].promise = "rejected"
                      /\ r.calls[c].reason = "ConnectionClosed"
                      /\ r.calls[c].timer = "cleared"
                 ELSE /\ r.calls[c].promise = calls[c].promise
                      /\ r.calls[c].reason = calls[c].reason
                      /\ r.calls[c].detail = calls[c].detail
                      /\ r.calls[c].by = calls[c].by

\* close() is waiting for the close event after rejecting two outstanding calls.
C4_Witness ==
    /\ \E s \in DOMAIN sockets : sockets[s].waiter
    /\ Len(calls) = 2
    /\ \A c \in 1..2 : calls[c].reason = "ConnectionClosed" /\ calls[c].timer = "cleared"
    /\ pendingRequests = EmptyMap

\* C5: once a close() has completed and connect() was not called since, no call
\* is outstanding, the client holds no open or connecting socket and it is not
\* connected.
C5_GuaranteedCleanup ==
    disposed =>
        /\ ~isConnected
        /\ socket = 0
        /\ pendingRequests = EmptyMap
        /\ \A c \in DOMAIN calls : calls[c].promise # "pending"
        /\ \A s \in DOMAIN sockets : sockets[s].state \notin {"connecting", "open"}

\* C6: request() on a client that is not connected rejects at once with the
\* not-connected error and changes nothing else: no id is consumed, no entry or
\* timer is made, nothing is written.
C6_NotConnectedRejects ==
    ~isConnected =>
        \A i \in DOMAIN MethodNames :
            LET r == Request(St, MethodNames[i])
                c == Len(calls) + 1
            IN
            /\ r.result = "request:rejected"
            /\ Len(r.calls) = c
            /\ SubSeq(r.calls, 1, Len(calls)) = calls
            /\ r.calls[c].promise = "rejected"
            /\ r.calls[c].reason = "NotConnected"
            /\ r.calls[c].timer = "none"
            /\ r.calls[c].write = "none"
            /\ r.requestId = requestId
            /\ r.pendingRequests = pendingRequests
            /\ r.sockets = sockets
            /\ r.socket = socket
            /\ r.isConnected = isConnected

\* A call was answered, the connection went, and the next call was refused
\* without taking an id.
C6_Witness ==
    /\ Len(calls) = 2
    /\ calls[1].reason = "Response"
    /\ calls[2].reason = "NotConnected"
    /\ requestId = 2
    /\ pendingRequests = EmptyMap

\* C7: when the timer of an outstanding call fires, the call is rejected with
\* the request-timeout error naming its method, its entry leaves the pending
\* table and every other entry and call is as before.
C7_TimeoutRejects ==
    \A c \in DOMAIN calls :
        calls[c].timer = "armed" =>
            LET r == OnRequestTimeout(St, c) IN
            /\ calls[c].promise = "pending" =>
                  /\ r.calls[c].promise = "rejected"
                  /\ r.calls[c].reason = "RequestTimeout"
                  /\ r.calls[c].detail = calls[c].method
            /\ calls[c].id \notin DOMAIN r.pendingRequests
            /\ ~InTable(r.pendingRequests, c)
            /\ DOMAIN r.pendingRequests = DOMAIN pendingRequests \ {calls[c].id}
            /\ \A k \in DOMAIN r.pendingRequests : r.pendingRequests[k] = pendingRequests[k]
            /\ \A d \in DOMAIN calls : d # c => r.calls[d] = calls[d]
            /\ r.isConnected = isConnected /\ r.socket = socket /\ r.sockets = sockets

\* The first call timed out while the second is still in the table.
C7_Witness ==
    /\ Len(calls) = 2
    /\ calls[1].reason = "RequestTimeout"
    /\ calls[1].detail = "echo"
    /\ calls[1].timer = "fired"
    /\ calls[2].promise = "pending"
    /\ DOMAIN pendingRequests = {2}

CompletedByTimeoutResponseOrClosure(c) ==
    c \in DOMAIN calls /\ calls[c].reason \in {"RequestTimeout", "Response", "RpcError", "ConnectionClosed"}

\* C8: a message with the id of a call already completed by timeout, response or
\* closure completes no call and leaves the pending table as it is.
C8_LateResponseIgnored ==
    \A c \in DOMAIN calls :
        CompletedByTimeoutResponseOrClosure(c) =>
            \A m \in Messages :
                (m.hasId /\ m.id = calls[c].id) =>
                    LET r == HandleData(St, OneMsg(m)) IN
                    /\ r.calls = calls
                    /\ r.pendingRequests = pendingRequests

\* The response to the first call came after its timeout, with a later call
\* outstanding: it was logged and dropped.
C8_Witness ==
    /\ Len(calls) = 2
    /\ calls[1].reason = "RequestTimeout"
    /\ calls[2].promise = "pending"
    /\ DOMAIN pendingRequests = {2}
    /\ console = <<[out |-> "Invalid notification format:", id |-> 1]>>

\* The console line of a notification of a method
NotificationLine(method) ==
    IF method \in {"update", "locked", "stolen"}
    THEN "Received " \o method \o " notification:"
    ELSE "Received notification:"

IsNotification(m) ==
    m.method # "none" /\ m.hasId /\ (m.id = 0 \/ m.id \notin DOMAIN pendingRequests)

\* The step taken is the handling of one chunk by _handleData.
Handled(chunk) ==
    LET r == HandleData(St, chunk) IN
    /\ SomeSocketOpen
    /\ isConnected' = r.isConnected /\ socket' = r.socket /\ requestId' = r.requestId
    /\ pendingRequests' = r.pendingRequests /\ calls' = r.calls /\ sockets' = r.sockets
    /\ console' = r.console /\ disposed' = r.disposed

\* C9: a message with a method whose id is null or matches no pending call is
\* dispatched as the notification of its method and is never treated as a
\* response: it completes no call and leaves the pending table unchanged.
C9_NotificationDispatched ==
    [][\A m \in Messages :
          (IsNotification(m) /\ Handled(OneMsg(m))) =>
              /\ calls' = calls
              /\ pendingRequests' = pendingRequests
              /\ console' = <<Entry(NotificationLine(m.method), NoMsg)>>]_vars

\* C10: a message with a method and no id member is dispatched to the
\* notification sink under its method, exactly as the same message with id null.
C10_AbsentIdIsNotification ==
    [][\A m \in Messages :
          (m.method # "none" /\ ~m.hasId /\ Handled(OneMsg(m))) =>
              /\ console' = HandleData(St, OneMsg([m EXCEPT !.hasId = TRUE])).console
              /\ console' = <<Entry(NotificationLine(m.method), NoMsg)>>]_vars

\* ------------------------------------------------- claims on the inbound stream
\* The segments the claims on whole chunks are tried with, and the chunks of up
\* to n of them.
SomeSegs ==
    { Seg("msg", Response(1, "null", "array")), Seg("msg", Response(2, "err", "none")),
      Seg("msg", Notification("locked")), Seg("junk", NoMsg), Seg("empty", NoMsg) }
ChunksUpTo(n) == UNION { [1..k -> SomeSegs] : k \in 1..n }

\* The three segments of ThreeSegments in every order
Orders(chunk) ==
    { [i \in DOMAIN chunk |-> chunk[p[i]]] :
        p \in { q \in [DOMAIN chunk -> DOMAIN chunk] : \A i, j \in DOMAIN chunk : q[i] = q[j] => i = j } }

\* What a handler completed and dispatched, in the order it did
IsOutput(e) == e.kind \in {"resolve", "reject", "notified"}
Outputs(st) == SelectSeq(st.effects, IsOutput)
Unplaced(es) ==
    [i \in DOMAIN es |-> [kind |-> es[i].kind, call |-> es[i].call, part |-> es[i].part,
                          value |-> es[i].value]]

\* C11: inbound messages are handled in the order their bytes arrived.  Within a
\* chunk, what the handler completes and dispatches follows the order of the
\* segments, each output being that of the frame at its place; across chunks,
\* the outputs of two reads one after the other are those of one read that
\* brings the frames of both.
C11_ArrivalOrder ==
    SomeSocketOpen =>
        /\ \A chunk \in ChunksUpTo(2) \cup Orders(ThreeSegments) :
              LET e == HandleData(St, chunk).effects
                  segs == Split(chunk)
              IN
              /\ \A i, j \in DOMAIN e : i < j => e[i].pos < e[j].pos
              /\ \A i \in DOMAIN e :
                    /\ e[i].pos \in DOMAIN segs
                    /\ IsOutput(e[i]) =>
                          /\ segs[e[i].pos] = Seg("msg", e[i].value)
                          /\ e[i].kind \in {"resolve", "reject"} =>
                                calls[e[i].call].id = e[i].value.id
        /\ \A a \in ChunksUpTo(1) : \A b \in ChunksUpTo(1) :
              Unplaced(Outputs(HandleData(HandleData(St, a), b)))
                  = Unplaced(Outputs(HandleData(St, a \o b)))

\* One read brought the answer to the first call, a notification and a piece of
\* junk: the call is resolved and the console has the two lines in that order.
C11_Witness ==
    /\ Len(calls) >= 1
    /\ calls[1].reason = "Response"
    /\ calls[1].by = 1
    /\ console = <<Entry("Received locked notification:", NoMsg),
                   Entry("Failed to parse JSON: SyntaxError", NoMsg)>>

\* A segment is bad if it does not parse to an object or parses to one with
\* neither id nor method; it is to be routed if it parses to a message with a
\* method (a notification) or with the id of a pending call (a response, the
\* first of the chunk with that id).
BadSegment(seg) ==
    \/ seg.kind \in {"junk", "part", "head", "tail", "scalar"}
    \/ seg.kind = "msg" /\ ~seg.m.hasId /\ seg.m.method = "none"
ToBeRouted(segs, i) ==
    /\ segs[i].kind = "msg"
    /\ \/ segs[i].m.method # "none"
       \/ /\ segs[i].m.hasId /\ segs[i].m.id \in DOMAIN pendingRequests
          /\ \A j \in 1..(i - 1) : ~(segs[j].kind = "msg" /\ segs[j].m.hasId /\ segs[j].m.id = segs[i].m.id)
EffectsAt(st, i) == SelectSeq(st.effects, LAMBDA e : e.pos = i)
GoodSegments(segs) == SelectSeq(segs, LAMBDA seg : ~BadSegment(seg))

SegmentsRouted(chunk) ==
    LET segs == Split(chunk)
        r == HandleData(St, chunk)
        good == HandleData(St, GoodSegments(segs))
    IN
    /\ r.exc = "none"
    /\ \A i \in DOMAIN segs :
          /\ ToBeRouted(segs, i) =>
                /\ Len(EffectsAt(r, i)) = 1
                /\ IsOutput(EffectsAt(r, i)[1])
                /\ EffectsAt(r, i)[1].value = segs[i].m
          /\ BadSegment(segs[i]) =>
                /\ Len(EffectsAt(r, i)) = 1
                /\ EffectsAt(r, i)[1].kind = "dropped"
    /\ Unplaced(Outputs(r)) = Unplaced(Outputs(good))
    /\ r.calls = good.calls /\ r.pendingRequests = good.pendingRequests
    /\ r.isConnected = isConnected /\ r.socket = socket /\ r.sockets = sockets

\* C12: of the segments of a chunk, every one that parses to a message is routed
\* exactly once (completes its call or is dispatched as a notification) and
\* every one that does not parse, or parses to a message with neither id nor
\* method, is logged and dropped; a bad segment raises nothing, changes neither
\* the connection nor a call, and the other segments are routed as without it.
C12_SegmentsRouted ==
    [][\A chunk \in Chunks : Handled(chunk) => SegmentsRouted(chunk)]_vars

\* C13: a frame whose bytes come in two consecutive chunks is put together
\* again and routed once: the two reads complete and dispatch what one read of
\* the whole frame does (the response to a pending call resolves that call).
C13_SplitFrameReassembled ==
    SomeSocketOpen =>
        \A m \in SplitMessages :
            LET two == HandleData(HandleData(St, <<Seg("head", m)>>), <<Seg("tail", m)>>)
                one == HandleData(St, OneMsg(m))
            IN
            /\ two.calls = one.calls
            /\ two.pendingRequests = one.pendingRequests
            /\ Unplaced(Outputs(two)) = Unplaced(Outputs(one))

\* -------------------------------------------------------- claims on responses
\* The responses with no error to a call that is pending
AnswersTo(c) ==
    { m \in Messages : m.hasId /\ m.id = calls[c].id /\ m.method = "none" /\ m.error = "null" }
IsPendingCall(c) ==
    /\ c \in DOMAIN calls /\ calls[c].promise = "pending"
    /\ calls[c].id \in DOMAIN pendingRequests /\ pendingRequests[calls[c].id] = c

ErrorsTo(c) ==
    { m \in Messages : m.hasId /\ m.id = calls[c].id /\ m.error # "null" }

\* C15: a response with a non-null error rejects the pending call with its id
\* with an RPC error that carries the error string of the server, and changes
\* nothing else: the connection is as before and every other call and entry is
\* untouched, its timer armed.
C15_ErrorRejectsOne ==
    SomeSocketOpen =>
        \A c \in DOMAIN calls : IsPendingCall(c) =>
            \A m \in ErrorsTo(c) :
                LET r == HandleData(St, OneMsg(m)) IN
                /\ r.calls[c].promise = "rejected"
                /\ r.calls[c].reason = "RpcError"
                /\ r.calls[c].detail = m.error
                /\ r.calls[c].timer # "armed"
                /\ Unplaced(r.effects) = <<[kind |-> "reject", call |-> c, part |-> "error", value |-> m]>>
                /\ DOMAIN r.pendingRequests = DOMAIN pendingRequests \ {m.id}
                /\ \A k \in DOMAIN r.pendingRequests : r.pendingRequests[k] = pendingRequests[k]
                /\ \A d \in DOMAIN calls : d # c => r.calls[d] = calls[d]
                /\ r.isConnected = isConnected /\ r.socket = socket /\ r.sockets = sockets
                /\ r.requestId = requestId

\* The first call was rejected by an error response while the client stays
\* connected and the second call is pending with its timer armed.
C15_Witness ==
    /\ Len(calls) = 2
    /\ calls[1].reason = "RpcError"
    /\ calls[1].detail = "err"
    /\ calls[1].by = 1
    /\ calls[2].promise = "pending"
    /\ calls[2].timer = "armed"
    /\ DOMAIN pendingRequests = {2}
    /\ isConnected

\* ------------------------------------------------ claims on connect and close
\* C16: connect() on a connected client succeeds at once and changes nothing: no
\* socket is made, this.socket is kept, the pending table, the calls and the id
\* counter are as before.
C16_ConnectWhenConnected ==
    isConnected =>
        \A exists \in BOOLEAN :
            LET r == ConnectOp(St, exists) IN
            /\ r.result = "connect:resolved"
            /\ r.isConnected
            /\ r.sockets = sockets
            /\ r.socket = socket
            /\ r.pendingRequests = pendingRequests
            /\ r.calls = calls
            /\ r.requestId = requestId

\* A connected client with a call outstanding on its one socket: the state
\* connect() is invoked in and leaves as it is.
C16_Witness ==
    /\ isConnected
    /\ socket = 1
    /\ Len(sockets) = 1
    /\ sockets[1].state = "open"
    /\ DOMAIN pendingRequests = {1}
    /\ requestId = 2
    /\ ~disposed

\* The step taken is the firing of the connect timer of the connect() that
\* made socket s.
ConnectTimedOut(s) ==
    /\ s \in DOMAIN sockets
    /\ sockets[s].timer = "armed"
    /\ LET r == OnConnectTimeout(St, s) IN
       /\ isConnected' = r.isConnected /\ socket' = r.socket /\ requestId' = r.requestId
       /\ pendingRequests' = r.pendingRequests /\ calls' = r.calls /\ sockets' = r.sockets
       /\ console' = r.console /\ disposed' = r.disposed

\* C17: when the connect timer of an attempt fires, that connect() fails with
\* the connect-timeout error, the socket of the attempt is torn down (so that it
\* cannot connect the client any more) and the client is not connected.
C17_ConnectTimeout ==
    [][\A s \in 1..MaxSockets :
          ConnectTimedOut(s) =>
              /\ sockets'[s].promise = "ConnectTimeout"
              /\ sockets'[s].state \in {"destroyed", "closed"}
              /\ ~isConnected']_vars

\* The fields of the client and what hangs on them
Client(st) ==
    <<st.isConnected, st.socket, st.requestId, st.pendingRequests, st.calls, st.sockets>>

\* C18: close() is idempotent.  On a client that is not connected (never
\* connected, or closed before) it completes at once and changes no state; and
\* in every state a second close() right after the first leaves the client as
\* the first left it, and completes at once.
C18_CloseIdempotent ==
    /\ ~isConnected =>
          /\ Client(Dispose(St)) = Client(St)
          /\ Dispose(St).result = "close:resolved"
    /\ Client(Dispose(Dispose(St))) = Client(Dispose(St))
    /\ Dispose(Dispose(St)).result = "close:resolved"

\* close() was called twice in a row on a connected client: the first is waiting
\* for the close event of the socket, the second has completed.
C18_Witness ==
    /\ disposed
    /\ ~isConnected
    /\ socket = 0
    /\ \E s \in DOMAIN sockets : sockets[s].waiter /\ sockets[s].state = "destroyed"

\* A close() awaits the close event of socket s
Closing(s) == s \in DOMAIN sockets /\ sockets[s].waiter

\* close() in this state completes at once, or it waits for the close event of
\* a socket that it has destroyed.
CloseResolvesOrWaits ==
    LET r == Dispose(St) IN
    \/ r.result = "close:resolved"
    \/ /\ r.result = "close:pending"
       /\ \E s \in DOMAIN sockets : r.sockets[s].waiter /\ r.sockets[s].state = "destroyed"

\* C19: close() completes from every state.  A close() that does not complete
\* at once waits for the close event of the socket it has destroyed, and given
\* that a destroyed socket emits its close event, every such wait ends.
C19_CloseCompletes ==
    /\ []CloseResolvesOrWaits
    /\ \A s \in 1..MaxSockets : Closing(s) ~> ~Closing(s)

\* A close() on a connected client with a live socket and a second connection
\* attempt under way is waiting for the close event.
C19_Witness ==
    /\ ~disposed
    /\ Len(sockets) = 2
    /\ Closing(2)
    /\ sockets[2].state = "destroyed"
    /\ sockets[1].state = "open"

\* ------------------------------------------------------- claims on identifiers
\* The calls that were given an id (a request frame was made for them), in the
\* order of their issue
Framed == SelectSeq(calls, LAMBDA call : call.id # 0)

\* C20: the ids written in request frames are 1, 2, 3, ... in the order of
\* issue; the counter is one more than the last id given and never goes back, so
\* no id is given while a call with that id is pending, and every key of the
\* pending table is smaller than the next id.
C20_IdsIncrease ==
    /\ \A i \in DOMAIN Framed : Framed[i].id = i
    /\ requestId = Len(Framed) + 1
    /\ \A k \in DOMAIN pendingRequests : k >= 1 /\ k < requestId
    /\ \A c, d \in DOMAIN calls :
          (c # d /\ calls[c].id # 0 /\ calls[d].id # 0) => calls[c].id # calls[d].id
    /\ \A i \in DOMAIN MethodNames :
          LET r == Request(St, MethodNames[i]) IN
          /\ r.requestId >= requestId
          /\ r.result # "request:rejected" =>
                /\ r.calls[Len(r.calls)].id = requestId
                /\ requestId \notin DOMAIN pendingRequests
                /\ r.requestId > requestId

\* Two calls are pending with the ids 1 and 2 and the next id is 3.
C20_Witness ==
    /\ Len(calls) = 2
    /\ calls[1].id = 1 /\ calls[2].id = 2
    /\ DOMAIN pendingRequests = {1, 2}
    /\ calls[1].promise = "pending" /\ calls[2].promise = "pending"
    /\ requestId = 3

\* Call c is the first that was given a frame on the connection it was made on,
\* and that connection was made after every earlier one was closed.
FirstOnConnection(c) ==
    /\ c \in DOMAIN calls
    /\ calls[c].id # 0 /\ calls[c].sock # 0
    /\ \A d \in 1..(c - 1) : calls[d].sock # calls[c].sock
    /\ \A s \in 1..(calls[c].sock - 1) : sockets[s].state \in {"destroyed", "closed"}

\* C21: the id counter belongs to one connection: the first call on every
\* connection made by connect(), after the one before was closed, is sent with
\* id 1.
C21_CounterPerConnection ==
    \A c \in DOMAIN calls : FirstOnConnection(c) => calls[c].id = 1

\* ------------------------------------------------ claims on transport failures
\* The write of call c is under way on a socket that can fail it, and the call
\* is outstanding.
WriteCanFail(c) ==
    /\ IsPendingCall(c)
    /\ calls[c].write = "inflight" /\ calls[c].by = 0
    /\ sockets[calls[c].sock].state # "connecting"

AllRejectedAndClosed(r) ==
    /\ r.pendingRequests = EmptyMap
    /\ ~r.isConnected
    /\ \A c \in DOMAIN calls :
          /\ r.calls[c].timer # "armed"
          /\ IF calls[c].promise = "pending"
             THEN r.calls[c].promise = "rejected" /\ r.calls[c].reason = "ConnectionClosed"
             ELSE r.calls[c].promise = calls[c].promise /\ r.calls[c].reason = calls[c].reason
    /\ \A i \in DOMAIN MethodNames :
          LET q == Request(r, MethodNames[i]) IN
          /\ q.result = "request:rejected"
          /\ q.calls[Len(q.calls)].reason = "NotConnected"

\* C23: when a socket reports an error, or closes, while the client is
\* connected, every outstanding call is rejected with the connection-closed
\* error, every request timer is cancelled, the pending table is empty and the
\* client is not connected, so that the next call is refused as not connected.
C23_TransportFailureRejectsAll ==
    isConnected =>
        \A s \in DOMAIN sockets :
            /\ sockets[s].state \in {"connecting", "open"} =>
                  AllRejectedAndClosed(OnError([St EXCEPT !.sockets[s].state = "destroyed"], s))
            /\ sockets[s].state = "destroyed" =>
                  AllRejectedAndClosed(OnClose([St EXCEPT !.sockets[s].state = "closed"], s))

\* The socket failed with two calls outstanding and no close() was made: both
\* are rejected as closed, the socket awaits its close event.
C23_Witness ==
    /\ Len(calls) = 2
    /\ \A c \in 1..2 : calls[c].reason = "ConnectionClosed" /\ calls[c].timer = "cleared"
                       /\ calls[c].write = "inflight"
    /\ Len(sockets) = 1
    /\ sockets[1].state = "destroyed" /\ ~sockets[1].waiter
    /\ ~isConnected /\ ~disposed
    /\ pendingRequests = EmptyMap

\* ------------------------------------------------- claims on the order of steps
StepNames(st) == [i \in DOMAIN st.steps |-> st.steps[i].step]
StepsOf(st, name) == SelectSeq(st.steps, LAMBDA x : x.step = name)

\* C24 as stated: in a disposal the client stops accepting calls, then rejects
\* every outstanding call, and only then has the transport torn down: every
\* rejection finds the client not accepting and the socket still in place, and
\* the teardown finds no call outstanding.
C24_RejectBeforeTeardown ==
    (isConnected /\ socket # 0) =>
        LET r == Dispose(St) IN
        \A i \in DOMAIN r.steps :
            /\ r.steps[i].step = "complete" =>
                  ~r.steps[i].isConnected /\ r.steps[i].socket = socket
            /\ r.steps[i].step = "teardown" =>
                  ~r.steps[i].isConnected /\ r.steps[i].outstanding = 0

\* C24: a disposal runs its steps in this order: the client stops accepting
\* calls, then has the transport torn down (destroys the socket and drops it),
\* then rejects every outstanding call as closed, the timer of each cancelled
\* just before, and last empties the pending table.
C24_DisposalOrder ==
    (isConnected /\ socket # 0) =>
        LET r == Dispose(St)
            n == Cardinality(DOMAIN pendingRequests)
        IN
        /\ StepNames(r) = <<"stop", "teardown">> \o [i \in 1..n |-> "complete"] \o <<"clear">>
        /\ \A i \in DOMAIN r.steps :
              /\ r.steps[i].step = "teardown" =>
                    /\ ~r.steps[i].isConnected
                    /\ r.steps[i].socket = socket
                    /\ r.steps[i].outstanding
                          = Cardinality({ c \in DOMAIN calls : calls[c].promise = "pending" })
              /\ r.steps[i].step = "complete" =>
                    /\ ~r.steps[i].isConnected
                    /\ r.steps[i].socket = 0
                    /\ ~r.steps[i].armed
                    /\ r.calls[r.steps[i].call].reason = "ConnectionClosed"
                          \/ calls[r.steps[i].call].promise # "pending"
        /\ \A c \in DOMAIN calls :
              calls[c].promise = "pending" => Len(SelectSeq(r.steps, LAMBDA x : x.call = c)) = 1
        /\ r.sockets[socket].state \notin {"connecting", "open"}

\* A close() on a connected client with one call outstanding has rejected the
\* call and destroyed the socket, whose close event it awaits.
C24_Witness ==
    /\ Len(calls) = 1
    /\ calls[1].reason = "ConnectionClosed"
    /\ calls[1].timer = "cleared"
    /\ Len(sockets) = 1
    /\ sockets[1].state = "destroyed" /\ sockets[1].waiter
    /\ ~isConnected /\ socket = 0 /\ ~disposed

\* Every completion made by r found the entry of its call gone from the table
\* and its timer not armed.
RemovedBeforeCompleted(r) ==
    \A i \in DOMAIN r.steps :
        r.steps[i].step = "complete" => (~r.steps[i].inTable /\ ~r.steps[i].armed)

\* Every completion made by r found the timer of its call not armed.
CancelledBeforeCompleted(r) ==
    \A i \in DOMAIN r.steps : r.steps[i].step = "complete" => ~r.steps[i].armed

\* No armed request timer belongs to a call that is not in the table, and every
\* entry of the table has its timer armed.
TimersMatchTable ==
    /\ \A c \in DOMAIN calls : calls[c].timer = "armed" => InTable(pendingRequests, c)
    /\ \A k \in DOMAIN pendingRequests :
          /\ pendingRequests[k] \in DOMAIN calls
          /\ calls[pendingRequests[k]].id = k
          /\ calls[pendingRequests[k]].timer = "armed"

\* The three paths that complete one call: a response with its id, its timer,
\* the failure of its write.
SinglePathsRemoveFirst ==
    \A c \in DOMAIN calls :
        /\ IsPendingCall(c) =>
              \A m \in AnswersTo(c) \cup ErrorsTo(c) :
                  LET r == HandleData(St, OneMsg(m)) IN
                  /\ Len(StepsOf(r, "complete")) = 1
                  /\ RemovedBeforeCompleted(r)
        /\ calls[c].timer = "armed" =>
              LET r == OnRequestTimeout(St, c) IN
              /\ Len(StepsOf(r, "complete")) = 1
              /\ RemovedBeforeCompleted(r)
        /\ WriteCanFail(c) =>
              LET r == WriteCallback(St, c) IN
              /\ Len(StepsOf(r, "complete")) = 1
              /\ RemovedBeforeCompleted(r)

\* C25 as stated: on every path that completes a call (response, timeout,
\* closure, write failure) the entry is out of the table and the timer not
\* armed when the call is completed; no armed timer belongs to a call outside
\* the table and every entry has its timer armed.
C25_RemovedBeforeCompleted ==
    /\ TimersMatchTable
    /\ SinglePathsRemoveFirst
    /\ RemovedBeforeCompleted(Cleanup(St))

\* C25: on the paths response, timeout and write failure the entry is out of
\* the table and the timer not armed when the call is completed; on closure the
\* timer of each call is cancelled before the call is rejected and the table is
\* emptied after all calls are rejected; between handlers no armed timer belongs
\* to a call outside the table and every entry has its timer armed.
C25_CancelledBeforeCompleted ==
    /\ TimersMatchTable
    /\ SinglePathsRemoveFirst
    /\ LET r == Cleanup(St) IN
       /\ CancelledBeforeCompleted(r)
       /\ Len(StepsOf(r, "complete")) = Cardinality(DOMAIN pendingRequests)
       /\ \A i \in DOMAIN r.steps : r.steps[i].step = "complete" => r.steps[i].inTable
       /\ r.steps[Len(r.steps)].step = "clear"
       /\ r.pendingRequests = EmptyMap

\* The first call was completed by its timer, the second is in the table with
\* its timer armed, and the socket is open.
C25_Witness ==
    /\ Len(calls) = 2
    /\ calls[1].timer = "fired" /\ calls[1].promise = "rejected"
    /\ calls[2].timer = "armed" /\ calls[2].promise = "pending"
    /\ DOMAIN pendingRequests = {2} /\ pendingRequests[2] = 2
    /\ isConnected /\ socket = 1 /\ sockets[1].state = "open"

\* ------------------------------------------------------------------------
\* claims on sockets
\* ------------------------------------------------------------------------

\* The sockets that were created and are neither destroyed nor closed.
LiveSockets == { s \in DOMAIN sockets : sockets[s].state \in {"connecting", "open"} }

\* C26: at most one socket is live at any time, and every live socket is the
\* one the client references.
C26_OneLiveSocket ==
    /\ Cardinality(LiveSockets) <= 1
    /\ \A s \in LiveSockets : socket = s

\* The step is the close event of the destroyed socket s.
SocketClosed(s) ==
    /\ s \in DOMAIN sockets
    /\ sockets[s].state = "destroyed"
    /\ LET r == OnClose([St EXCEPT !.sockets[s].state = "closed"], s) IN
       /\ isConnected' = r.isConnected /\ socket' = r.socket /\ requestId' = r.requestId
       /\ pendingRequests' = r.pendingRequests /\ calls' = r.calls /\ sockets' = r.sockets
       /\ console' = r.console /\ disposed' = r.disposed

\* Socket s belongs to an earlier connection or attempt: it has been torn down
\* and the client references a socket created after it.
EarlierSocket(s) ==
    /\ s \in DOMAIN sockets
    /\ sockets[s].state = "destroyed"
    /\ socket # 0 /\ s < socket

\* The connection on the socket the client references is left as it was: the
\* socket is not destroyed, the client is as connected as before and the calls
\* written to that socket that were outstanding still are.
LaterConnectionKept ==
    /\ socket' = socket
    /\ sockets'[socket] = sockets[socket]
    /\ isConnected' = isConnected
    /\ \A c \in DOMAIN calls :
          (calls[c].sock = socket /\ calls[c].promise = "pending") =>
              calls'[c].promise = "pending"

\* C27: a late event of the socket of an earlier connection or attempt (its
\* close event, its connect timer) does not destroy the socket of the later
\* connection, does not mark the client not connected and rejects no call
\* pending on the later connection.
C27_EarlierSocketEvents ==
    [][\A s \in 1..MaxSockets :
          (EarlierSocket(s) /\ (SocketClosed(s) \/ ConnectTimedOut(s))) =>
              LaterConnectionKept]_vars

\* ------------------------------------------------------------------------
\* claims on the connected flag
\* ------------------------------------------------------------------------

\* Pending calls exist only while the client is connected.
PendingOnlyWhileConnected == ~isConnected => pendingRequests = EmptyMap

\* A connected client references a socket.
ConnectedHasSocket == isConnected => socket # 0

\* C28: if the client is not connected the pending table is empty, and if the
\* client is connected it references a socket, so that a call accepted by
\* request() has a socket to be written to.
C28_ConnectedFlag ==
    /\ PendingOnlyWhileConnected
    /\ ConnectedHasSocket
    /\ \A c \in DOMAIN calls : calls[c].id # 0 => calls[c].sock # 0

====
